---- MODULE Spec2Model ----
(***************************************************************************)
(* A state-machine model of copy_on_write<T> (src/copy_on_write.h).        *)
(*                                                                         *)
(* The heap holds the held objects (obj) and the control blocks (cb) that  *)
(* std::shared_ptr counts references to; wr holds the wrapper variables of *)
(* a client program.  Two wrapper types are modelled: copy_on_write<U>     *)
(* (type level 0, the derived type) and copy_on_write<T> (type level 1, a  *)
(* base of U), so that U* converts to T* and not the other way round.      *)
(* Every action is one public operation of the class, run to completion,   *)
(* including an escape by exception.  Further client programs follow the   *)
(* first: a three-level hierarchy, two threads that copy and release, two  *)
(* threads that call mutate (there the steps are the statements of         *)
(* mutate), and a client of the variant header src/unnamed/part_001.       *)
(***************************************************************************)
EXTENDS Integers, FiniteSets, Sequences, TLC

\* ------------------------------------------------------------------ bounds
MaxObjs == 3      \* heap cells for held objects, each with its concrete block
MaxDelegs == 2    \* heap cells for delegating control blocks
MaxVal == 2       \* held values are 1..MaxVal

NULL == 0
\* Addresses.  The concrete (indirect or direct) block that owns the object at
\* address o is given the address o; delegating blocks have addresses of their own.
Objs == 1..MaxObjs
Delegs == (MaxObjs + 1)..(MaxObjs + MaxDelegs)
Cbs == Objs \cup Delegs
Values == 1..MaxVal
NoWrite == NULL

\* The wrapper variables of the client program and their static types.
Wrappers == {"u1", "u2", "t1"}
NoWrapper == "none"
WType(w) == IF w \in {"u1", "u2"} THEN 0 ELSE IF w = "t1" THEN 1 ELSE 2
\* std::is_convertible<U*, T*> && !std::is_same<T, U>
Convertible(from, to) == WType(from) < WType(to)
SameType(a, b) == WType(a) = WType(b)

\* What a copy policy (or the held type's copy constructor) does when called.
Copiers == {"copy", "throw"}

VARIABLES
  wr,     \* wr[w] = [alive, ptr, cb]: ptr_ and cb_ of wrapper w
  cb,     \* cb[c] = control block c: kind, use count, owned object, delegate
  obj,    \* obj[o] = held object o: live, value
  bad,    \* a destroyed or null block/object was used (undefined behaviour)
  fam,    \* history: wrappers related by same-type copies, moves and swaps
  last,   \* history: the operation that produced this state, its pointer or
          \* value argument (arg) and its outcome
  pc      \* pc[t]: where thread t is inside a shared_ptr release (threaded clients)

vars == <<wr, cb, obj, bad, fam, last, pc>>

DeadWrapper == [alive |-> FALSE, ptr |-> NULL, cb |-> NULL]
EmptyWrapper == [alive |-> TRUE, ptr |-> NULL, cb |-> NULL]
FreeCb == [kind |-> "free", rc |-> 0, obj |-> NULL, delegate |-> NULL, copier |-> "none",
           utype |-> 0]
DeadObj == [live |-> FALSE, value |-> 0, type |-> 0]

\* The heap as the operation under way sees it, with the policy invocations
\* counted from the operation's start.
Heap0 == [cb |-> cb, obj |-> obj, bad |-> bad, copies |-> 0, deletes |-> 0]

\* The allocator hands out the lowest free address.
FreeObjs(h) == {o \in DOMAIN h.obj : ~h.obj[o].live /\ h.cb[o].kind = "free"}
FreeDelegs(h) == {c \in DOMAIN h.cb \ DOMAIN h.obj : h.cb[c].kind = "free"}
NewObj(h) == CHOOSE o \in FreeObjs(h) : \A p \in FreeObjs(h) : o <= p
NewDeleg(h) == CHOOSE c \in FreeDelegs(h) : \A d \in FreeDelegs(h) : c <= d
\* The heap is bounded.  An operation needs at most one fresh object (with its
\* block) and one fresh delegating block, and gives up what it replaces only
\* after it allocated; so the client runs an operation only when it leaves one
\* cell of each kind free for the next one, and no allocation ever fails.
\* (Cloning a holder that was converted n times takes n delegating blocks; n is
\* at most the highest type level among the client's wrappers.)
Depth == CHOOSE n \in 0..2 : \A w \in DOMAIN wr : WType(w) <= n /\
                                \E x \in DOMAIN wr : WType(x) = n
Room(h) == FreeObjs(h) # {} /\ Cardinality(FreeDelegs(h)) >= Depth

\* ------------------------------------------------------------ shared_ptr
\* Copying a std::shared_ptr: one more reference to block c.
SharedCopy(h, c) ==
  IF c = NULL THEN h
  ELSE IF h.cb[c].kind = "free" THEN [h EXCEPT !.bad = TRUE]
  ELSE [h EXCEPT !.cb[c].rc = @ + 1]

\* A uniqueness test that only asks whether there is a block.
UniqueIfSet(h, c) == c # NULL

\* std::shared_ptr::unique(): use_count() == 1.
Unique(h, c) == c # NULL /\ h.cb[c].rc = 1

\* The delete policy D applied to held object o (std::unique_ptr<U, D>'s
\* destructor); releasing an object that is not live is a double free.
Deleter(h, o) ==
  IF o = NULL THEN h
  ELSE IF ~h.obj[o].live THEN [h EXCEPT !.bad = TRUE, !.deletes = @ + 1]
  ELSE [h EXCEPT !.obj[o] = DeadObj, !.deletes = @ + 1]

\* Destroying a std::shared_ptr: one reference fewer to block c; the last one
\* destroys the block, which releases what the block owns: an indirect block
\* its object through the delete policy, a direct block its inline value, a
\* delegating block its reference to the delegate.
RECURSIVE SharedRelease(_, _)
SharedRelease(h, c) ==
  IF c = NULL THEN h
  ELSE IF h.cb[c].kind = "free" THEN [h EXCEPT !.bad = TRUE]
  ELSE IF h.cb[c].rc > 1 THEN [h EXCEPT !.cb[c].rc = @ - 1]
  ELSE LET b == h.cb[c]
           h1 == [h EXCEPT !.cb[c] = FreeCb]
       IN CASE b.kind = "indirect" -> Deleter(h1, b.obj)
            [] b.kind = "direct" ->
                 IF h1.obj[b.obj].live THEN [h1 EXCEPT !.obj[b.obj] = DeadObj]
                 ELSE [h1 EXCEPT !.bad = TRUE]
            [] OTHER -> SharedRelease(h1, b.delegate)

\* ------------------------------------------------------- control blocks
\* A fresh control block of the given kind, instantiated for the type u, owning
\* a fresh object of dynamic type t and value v:
\* indirect_shared_control_block<T, U, C, D>(p, c, d) around p, or
\* direct_shared_control_block<U>(v).  The result names the block and the object.
NewHolder(h, kind, u, t, v, cp) ==
  LET o == NewObj(h)
      c == o
  IN [h |-> [h EXCEPT !.obj[o] = [live |-> TRUE, value |-> v, type |-> t],
                      !.cb[c] = [kind |-> kind, rc |-> 1, obj |-> o,
                                 delegate |-> NULL, copier |-> cp, utype |-> u]],
      c |-> c, o |-> o]

\* A copier that copies the outermost base subobject only: new Base(*p).
CopiedTypeBase(b) == 2

\* The dynamic type of the object the copy policy of block b makes:
\* default_copy<U> is new U(t), and a direct block copies its U inline.
CopiedType(b) == b.utype

\* delegating_shared_control_block(b): takes over the caller's reference to b.
NewDelegating(h, d) ==
  LET c == NewDeleg(h)
  IN [h |-> [h EXCEPT !.cb[c] = [kind |-> "delegating", rc |-> 1, obj |-> NULL,
                                 delegate |-> d, copier |-> "none", utype |-> 0]],
      c |-> c]

\* shared_control_block::ptr().
RECURSIVE CbPtr(_, _)
CbPtr(cbs, c) ==
  IF c = NULL THEN NULL
  ELSE IF cbs[c].kind = "delegating" THEN CbPtr(cbs, cbs[c].delegate)
  ELSE cbs[c].obj

\* ptr() called on a null, destroyed or null-delegating block dereferences null.
RECURSIVE PtrDefined(_, _)
PtrDefined(cbs, c) ==
  /\ c # NULL
  /\ cbs[c].kind # "free"
  /\ cbs[c].kind = "delegating" => PtrDefined(cbs, cbs[c].delegate)

\* shared_control_block::clone(): [h, c, threw].  The copy policy runs once, at
\* the concrete block the chain ends in; when it throws nothing was created.
RECURSIVE Clone(_, _)
Clone(h, c) ==
  IF c = NULL \/ h.cb[c].kind = "free"
  THEN [h |-> [h EXCEPT !.bad = TRUE], c |-> NULL, threw |-> FALSE]
  ELSE LET b == h.cb[c] IN
    IF b.kind = "delegating"
    THEN LET r == Clone(h, b.delegate) IN
         IF r.threw \/ r.c = NULL THEN r
         ELSE LET n == NewDelegating(r.h, r.c) IN
              [h |-> n.h, c |-> n.c, threw |-> FALSE]
    ELSE LET h1 == [h EXCEPT !.copies = @ + 1] IN
         IF b.copier = "throw" THEN [h |-> h1, c |-> NULL, threw |-> TRUE]
         ELSE LET n == NewHolder(h1, b.kind, b.utype, CopiedType(b),
                                 h.obj[b.obj].value, b.copier) IN
              [h |-> n.h, c |-> n.c, threw |-> FALSE]


\* ------------------------------------------------------------- history
\* fam is a set of disjoint families of wrappers: two wrappers are in one family
\* when the holder of one came from the other's by same-type copy construction or
\* copy assignment, carried along by same-type moves and swaps.  A wrapper
\* without a holder is in no family.
FamLeave(f, w) == {F \ {w} : F \in f} \ {{}}
FamNew(f, w, c) == IF c = NULL THEN FamLeave(f, w) ELSE FamLeave(f, w) \cup {{w}}
FamJoin(f, w, s, c) ==
  IF c = NULL THEN FamLeave(f, w)
  ELSE {IF s \in F THEN F \cup {w} ELSE F : F \in FamLeave(f, w)}
FamMove(f, w, s) ==
  {IF s \in F THEN (F \ {s}) \cup {w} ELSE F : F \in FamLeave(f, w)}
FamSwap(f, a, b) ==
  {{IF x = a THEN b ELSE IF x = b THEN a ELSE x : x \in F} : F \in f}
SameFam(a, b) == \E F \in fam : a \in F /\ b \in F

Op(name, dst, src, h, threw, wrote) ==
  [op |-> name, dst |-> dst, src |-> src, threw |-> threw,
   copies |-> h.copies, deletes |-> h.deletes, wrote |-> wrote,
   out |-> "ok", ret |-> NULL, arg |-> NULL]

\* The program runs until an assertion fails or it crashes.
Running == last.out \notin {"assert", "crash"}

Commit(w2, h, f2, l) ==
  /\ Running
  /\ pc' = pc
  /\ Room(h)
  /\ wr' = w2
  /\ cb' = h.cb
  /\ obj' = h.obj
  /\ bad' = h.bad
  /\ fam' = f2
  /\ last' = l

Init ==
  /\ wr = [w \in Wrappers |-> DeadWrapper]
  /\ cb = [c \in Cbs |-> FreeCb]
  /\ obj = [o \in Objs |-> DeadObj]
  /\ bad = FALSE
  /\ fam = {}
  /\ last = [op |-> "init", dst |-> NoWrapper, src |-> NoWrapper, threw |-> FALSE,
             copies |-> 0, deletes |-> 0, wrote |-> NoWrite,
             out |-> "ok", ret |-> NULL, arg |-> NULL]
  /\ pc = <<>>

\* ------------------------------------------------- destructor, constructors
\* ~copy_on_write() = default: cb_ gives up its reference.
Destroy(w) ==
  /\ wr[w].alive
  /\ LET h == SharedRelease(Heap0, wr[w].cb)
     IN Commit([wr EXCEPT ![w] = DeadWrapper], h, FamLeave(fam, w),
               Op("destroy", w, NoWrapper, h, FALSE, NoWrite))

\* copy_on_write()
DefaultConstruct(w) ==
  /\ ~wr[w].alive
  /\ Commit([wr EXCEPT ![w] = EmptyWrapper], Heap0, fam,
            Op("default_construct", w, NoWrapper, Heap0, FALSE, NoWrite))

\* A pointer constructor without its null test: if (!u) return.
PointerCtorWrapsNull(h, u, v, cp) ==
  LET n == NewHolder(h, "indirect", u, u, v, cp)
  IN [h |-> n.h, ptr |-> IF v = NULL THEN NULL ELSE n.o, cb |-> n.c]

\* The wrapper copy_on_write(U* u, C copier, D deleter) builds around a pointer
\* of static type u to an object of dynamic type u and value v; v = NULL stands
\* for a null pointer.
PointerCtorResult(h, u, v, cp) ==
  IF v = NULL THEN [h |-> h, ptr |-> NULL, cb |-> NULL]
  ELSE LET n == NewHolder(h, "indirect", u, u, v, cp)
       IN [h |-> n.h, ptr |-> n.o, cb |-> n.c]

\* copy_on_write<T>(new T(v), copier): the pointee is of the wrapper's own type.
PointerConstruct(w, v, cp) ==
  /\ ~wr[w].alive
  /\ LET r == PointerCtorResult(Heap0, WType(w), v, cp)
     IN Commit([wr EXCEPT ![w] = [alive |-> TRUE, ptr |-> r.ptr, cb |-> r.cb]],
               r.h, FamNew(fam, w, r.cb),
               [Op("pointer_construct", w, NoWrapper, r.h, FALSE, NoWrite)
                  EXCEPT !.arg = v])

\* copy_on_write(U u) : copy_on_write(new U(std::move(u))), with the default
\* policies.  U is a type that can be passed by value: its copy constructor
\* returns, so default_copy<U> does too.
ValueCtorResult(h, u, v) == PointerCtorResult(h, u, v, "copy")

ValueConstruct(w, v) ==
  /\ ~wr[w].alive
  /\ LET r == ValueCtorResult(Heap0, WType(w), v)
     IN Commit([wr EXCEPT ![w] = [alive |-> TRUE, ptr |-> r.ptr, cb |-> r.cb]],
               r.h, FamNew(fam, w, r.cb),
               Op("value_construct", w, NoWrapper, r.h, FALSE, NoWrite))

\* A factory that allocates the object and hands the pointer to the wrapper.
MakeViaPointer(h, u, v) == PointerCtorResult(h, u, v, "copy")

\* make_copy_on_write<T>(ts...): a direct block holding T(ts...) inline,
\* ptr_ = cb_->ptr().  T is a type whose copy constructor returns.
MakeResult(h, u, v) ==
  LET n == NewHolder(h, "direct", u, u, v, "copy")
  IN [h |-> n.h, ptr |-> CbPtr(n.h.cb, n.c), cb |-> n.c]

MakeCopyOnWrite(w, v) ==
  /\ ~wr[w].alive
  /\ LET r == MakeResult(Heap0, WType(w), v)
     IN Commit([wr EXCEPT ![w] = [alive |-> TRUE, ptr |-> r.ptr, cb |-> r.cb]],
               r.h, FamNew(fam, w, r.cb),
               [Op("make", w, NoWrapper, r.h, FALSE, NoWrite) EXCEPT !.arg = v])

\* A copy constructor that copies cb_ as a raw pointer: no reference counted.
CopyCtorUncounted(h, s) == [h |-> h, ptr |-> s.ptr, cb |-> s.cb]

\* copy_on_write(const copy_on_write& c) : ptr_(c.ptr_), cb_(c.cb_)
CopyCtorResult(h, s) ==
  [h |-> SharedCopy(h, s.cb), ptr |-> s.ptr, cb |-> s.cb]

CopyConstruct(dst, src) ==
  /\ ~wr[dst].alive /\ wr[src].alive /\ SameType(dst, src)
  /\ LET r == CopyCtorResult(Heap0, wr[src])
     IN Commit([wr EXCEPT ![dst] = [alive |-> TRUE, ptr |-> r.ptr, cb |-> r.cb]],
               r.h, FamJoin(fam, dst, src, r.cb),
               Op("copy_construct", dst, src, r.h, FALSE, NoWrite))

\* A converting copy constructor that clones p's holder and wraps the clone.
ConvCopyCtorCloning(h, s) ==
  IF s.cb = NULL THEN [h |-> h, ptr |-> NULL, cb |-> NULL]
  ELSE LET r == Clone(h, s.cb) IN
       IF r.threw \/ r.c = NULL THEN [h |-> r.h, ptr |-> NULL, cb |-> NULL]
       ELSE LET n == NewDelegating(r.h, r.c)
            IN [h |-> n.h, ptr |-> CbPtr(n.h.cb, n.c), cb |-> n.c]

\* copy_on_write(const copy_on_write<U>& p): tmp(p), then a delegating block
\* around tmp.cb_, whatever tmp.cb_ is.
ConvCopyCtorResult(h, s) ==
  LET tmp == CopyCtorResult(h, s)
      n == NewDelegating(tmp.h, tmp.cb)
  IN [h |-> n.h, ptr |-> tmp.ptr, cb |-> n.c]

ConvCopyConstruct(dst, src) ==
  /\ ~wr[dst].alive /\ wr[src].alive /\ Convertible(src, dst)
  /\ LET r == ConvCopyCtorResult(Heap0, wr[src])
     IN Commit([wr EXCEPT ![dst] = [alive |-> TRUE, ptr |-> r.ptr, cb |-> r.cb]],
               r.h, FamNew(fam, dst, r.cb),
               Op("conv_copy_construct", dst, src, r.h, FALSE, NoWrite))

\* copy_on_write(copy_on_write&& c) : ptr_(c.ptr_), cb_(std::move(c.cb_)),
\* then c.ptr_ = nullptr.  [dst, src] are the two wrappers afterwards.
MoveCtorResult(s) ==
  [dst |-> [alive |-> TRUE, ptr |-> s.ptr, cb |-> s.cb], src |-> EmptyWrapper]

MoveConstruct(dst, src) ==
  /\ ~wr[dst].alive /\ wr[src].alive /\ SameType(dst, src)
  /\ LET r == MoveCtorResult(wr[src])
     IN Commit([wr EXCEPT ![dst] = r.dst, ![src] = r.src], Heap0,
               FamMove(fam, dst, src),
               Op("move_construct", dst, src, Heap0, FALSE, NoWrite))

\* copy_on_write(copy_on_write<U>&& c): a delegating block around
\* std::move(c.cb_), then c.ptr_ = nullptr.
ConvMoveCtorResult(h, s) ==
  LET n == NewDelegating(h, s.cb)
  IN [h |-> n.h, dst |-> [alive |-> TRUE, ptr |-> s.ptr, cb |-> n.c],
      src |-> EmptyWrapper]

ConvMoveConstruct(dst, src) ==
  /\ ~wr[dst].alive /\ wr[src].alive /\ Convertible(src, dst)
  /\ LET r == ConvMoveCtorResult(Heap0, wr[src])
     IN Commit([wr EXCEPT ![dst] = r.dst, ![src] = r.src], r.h,
               FamNew(FamLeave(fam, src), dst, r.dst.cb),
               Op("conv_move_construct", dst, src, r.h, FALSE, NoWrite))


\* ------------------------------------------------------------ assignment
\* An assignment operator without its self-assignment test.
SelfAssignUnnoticed(dst, src) == FALSE

\* if (&p == this) return *this;
SelfAssign(dst, src) == dst = src

\* An assignment that sets ptr_ = nullptr for an empty p and forgets cb_.reset().
CopyAssignKeepsHolder(h, d, s) ==
  IF s.ptr = NULL
  THEN [h |-> h, dst |-> [alive |-> TRUE, ptr |-> NULL, cb |-> d.cb], threw |-> FALSE]
  ELSE LET r == Clone(h, s.cb) IN
       IF r.threw THEN [h |-> r.h, dst |-> d, threw |-> TRUE]
       ELSE [h |-> SharedRelease(r.h, d.cb),
             dst |-> [alive |-> TRUE, ptr |-> CbPtr(r.h.cb, r.c), cb |-> r.c],
             threw |-> FALSE]

\* An assignment that shares p's holder instead of cloning it.
CopyAssignSharing(h, d, s) ==
  [h |-> SharedRelease(SharedCopy(h, s.cb), d.cb),
   dst |-> [alive |-> TRUE, ptr |-> s.ptr, cb |-> s.cb],
   threw |-> FALSE]

\* An assignment that drops this's holder before it clones p's.
CopyAssignReleaseFirst(h, d, s) ==
  LET h0 == SharedRelease(h, d.cb) IN
  IF s.ptr = NULL THEN [h |-> h0, dst |-> EmptyWrapper, threw |-> FALSE]
  ELSE LET r == Clone(h0, s.cb) IN
       IF r.threw THEN [h |-> r.h, dst |-> EmptyWrapper, threw |-> TRUE]
       ELSE [h |-> r.h, dst |-> [alive |-> TRUE, ptr |-> CbPtr(r.h.cb, r.c), cb |-> r.c],
             threw |-> FALSE]

\* operator=(const copy_on_write& p) on distinct wrappers d (this) and s (p):
\* [h, dst, threw].  The clone is made first; this is written only after it.
CopyAssignResult(h, d, s) ==
  IF s.ptr = NULL
  THEN [h |-> SharedRelease(h, d.cb), dst |-> EmptyWrapper, threw |-> FALSE]
  ELSE LET r == Clone(h, s.cb) IN
       IF r.threw THEN [h |-> r.h, dst |-> d, threw |-> TRUE]
       ELSE LET p == CbPtr(r.h.cb, r.c)
                h1 == IF PtrDefined(r.h.cb, r.c) THEN r.h
                      ELSE [r.h EXCEPT !.bad = TRUE]
            IN [h |-> SharedRelease(h1, d.cb),
                dst |-> [alive |-> TRUE, ptr |-> p, cb |-> r.c],
                threw |-> FALSE]

CopyAssign(dst, src) ==
  /\ wr[dst].alive /\ wr[src].alive /\ SameType(dst, src)
  /\ IF SelfAssign(dst, src)
     THEN Commit(wr, Heap0, fam, Op("copy_assign", dst, src, Heap0, FALSE, NoWrite))
     ELSE LET r == CopyAssignResult(Heap0, wr[dst], wr[src])
          IN Commit([wr EXCEPT ![dst] = r.dst], r.h,
                    IF r.threw THEN fam ELSE FamJoin(fam, dst, src, r.dst.cb),
                    Op("copy_assign", dst, src, r.h, r.threw, NoWrite))

\* A move assignment that forgets p.ptr_ = nullptr.
MoveAssignKeepsSourcePtr(h, d, s) ==
  [h |-> SharedRelease(h, d.cb),
   dst |-> [alive |-> TRUE, ptr |-> s.ptr, cb |-> s.cb],
   src |-> [alive |-> TRUE, ptr |-> s.ptr, cb |-> NULL]]

\* operator=(copy_on_write&& p) on distinct wrappers d (this) and s (p):
\* cb_ = std::move(p.cb_); ptr_ = p.ptr_; p.ptr_ = nullptr.
MoveAssignResult(h, d, s) ==
  [h |-> SharedRelease(h, d.cb),
   dst |-> [alive |-> TRUE, ptr |-> s.ptr, cb |-> s.cb],
   src |-> EmptyWrapper]

MoveAssign(dst, src) ==
  /\ wr[dst].alive /\ wr[src].alive /\ SameType(dst, src)
  /\ IF SelfAssign(dst, src)
     THEN Commit(wr, Heap0, fam, Op("move_assign", dst, src, Heap0, FALSE, NoWrite))
     ELSE LET r == MoveAssignResult(Heap0, wr[dst], wr[src])
          IN Commit([wr EXCEPT ![dst] = r.dst, ![src] = r.src], r.h,
                    FamMove(fam, dst, src),
                    Op("move_assign", dst, src, r.h, FALSE, NoWrite))

\* operator=(copy_on_write<U>&& p): the delegating block is made around
\* std::move(p.cb_), then assigned to cb_, which drops this's old block.
ConvMoveAssignResult(h, d, s) ==
  LET n == NewDelegating(h, s.cb)
  IN [h |-> SharedRelease(n.h, d.cb),
      dst |-> [alive |-> TRUE, ptr |-> s.ptr, cb |-> n.c],
      src |-> EmptyWrapper]

ConvMoveAssign(dst, src) ==
  /\ wr[dst].alive /\ wr[src].alive /\ Convertible(src, dst)
  /\ LET r == ConvMoveAssignResult(Heap0, wr[dst], wr[src])
     IN Commit([wr EXCEPT ![dst] = r.dst, ![src] = r.src], r.h,
               FamNew(FamLeave(fam, src), dst, r.dst.cb),
               Op("conv_move_assign", dst, src, r.h, FALSE, NoWrite))

\* operator=(const copy_on_write<U>& p): copy_on_write<U> tmp(p);
\* *this = std::move(tmp).  tmp dies empty.
ConvCopyAssignResult(h, d, s) ==
  LET tmp == CopyCtorResult(h, s)
  IN ConvMoveAssignResult(tmp.h, d, [alive |-> TRUE, ptr |-> tmp.ptr, cb |-> tmp.cb])

ConvCopyAssign(dst, src) ==
  /\ wr[dst].alive /\ wr[src].alive /\ Convertible(src, dst)
  /\ LET r == ConvCopyAssignResult(Heap0, wr[dst], wr[src])
     IN Commit([wr EXCEPT ![dst] = r.dst], r.h,
               FamNew(fam, dst, r.dst.cb),
               Op("conv_copy_assign", dst, src, r.h, FALSE, NoWrite))

\* operator=(const U& u) and operator=(U&& u): copy_on_write tmp(u);
\* *this = std::move(tmp).
ValueAssignResult(h, u, d, v) ==
  LET tmp == ValueCtorResult(h, u, v)
  IN MoveAssignResult(tmp.h, d, [alive |-> TRUE, ptr |-> tmp.ptr, cb |-> tmp.cb])

ValueAssign(dst, v) ==
  /\ wr[dst].alive
  /\ LET r == ValueAssignResult(Heap0, WType(dst), wr[dst], v)
     IN Commit([wr EXCEPT ![dst] = r.dst], r.h,
               FamNew(fam, dst, r.dst.cb),
               Op("value_assign", dst, NoWrapper, r.h, FALSE, NoWrite))

\* ------------------------------------------------------- swap and mutate
\* A swap that exchanges ptr_ and forgets cb_.
SwapPtrOnly(a, b) == [a |-> [a EXCEPT !.ptr = b.ptr], b |-> [b EXCEPT !.ptr = a.ptr]]

\* swap(copy_on_write& c), and the non-member swap(t, u) that calls it.
SwapResult(a, b) == [a |-> b, b |-> a]

Swap(a, b) ==
  /\ wr[a].alive /\ wr[b].alive /\ SameType(a, b)
  /\ LET r == SwapResult(wr[a], wr[b])
     IN Commit([wr EXCEPT ![a] = r.a, ![b] = r.b], Heap0,
               FamSwap(fam, a, b),
               Op("swap", a, b, Heap0, FALSE, NoWrite))

\* A detach that replaces cb_ and forgets ptr_ = cb_->ptr().
DetachKeepsPtr(h, c) ==
  LET r == Clone(h, c.cb) IN
  IF r.threw THEN [h |-> r.h, w |-> c, threw |-> TRUE]
  ELSE [h |-> SharedRelease(r.h, c.cb),
        w |-> [alive |-> TRUE, ptr |-> c.ptr, cb |-> r.c],
        threw |-> FALSE]

\* detach(): cb_ = cb_->clone(); ptr_ = cb_->ptr().  [h, w, threw]
Detach(h, c) ==
  LET r == Clone(h, c.cb) IN
  IF r.threw THEN [h |-> r.h, w |-> c, threw |-> TRUE]
  ELSE LET h1 == IF PtrDefined(r.h.cb, r.c) THEN r.h ELSE [r.h EXCEPT !.bad = TRUE]
       IN [h |-> SharedRelease(h1, c.cb),
           w |-> [alive |-> TRUE, ptr |-> CbPtr(r.h.cb, r.c), cb |-> r.c],
           threw |-> FALSE]

\* A mutate that tests cb_ instead of ptr_ and detaches whenever it is set.
MustDetachIfHolder(h, c) == c.cb # NULL

\* A mutate whose test is off by one: use_count() > 2.
MustDetachWhenCrowded(h, c) == c.ptr # NULL /\ h.cb[c.cb].rc > 2

\* A mutate that detaches whenever there is an object, shared or not.
MustDetachAlways(h, c) == c.ptr # NULL

\* A mutate that hands out ptr_ without looking at the use count.
MustDetachNever(h, c) == FALSE

\* The test mutate(c) makes before it detaches.
MustDetach(h, c) == c.ptr # NULL /\ ~Unique(h, c.cb)

\* mutate(c): [h, w, threw]; w.ptr is the pointer returned.
MutateResult(h, c) ==
  IF MustDetach(h, c) THEN Detach(h, c)
  ELSE [h |-> h, w |-> c, threw |-> FALSE]

\* The caller's write of v through the pointer p that mutate returned.
WriteThrough(h, p, v) ==
  IF v = NoWrite \/ p = NULL THEN h
  ELSE IF ~h.obj[p].live THEN [h EXCEPT !.bad = TRUE]
  ELSE [h EXCEPT !.obj[p].value = v]

\* mutate(c), followed at once (v # NoWrite) by the caller's write through the
\* pointer it returned; no pointer is returned when the clone throws.
Mutate(c, v) ==
  /\ wr[c].alive
  /\ LET r == MutateResult(Heap0, wr[c])
         h == IF r.threw THEN r.h ELSE WriteThrough(r.h, r.w.ptr, v)
     IN Commit([wr EXCEPT ![c] = r.w], h, fam,
               Op("mutate", c, NoWrapper, h, r.threw,
                  IF r.threw \/ r.w.ptr = NULL THEN NoWrite ELSE v))

\* ------------------------------------------------------------ observers
\* What an accessor call ends in: [out, ret].  "value": it returned the held
\* object, whose value is ret; "assert": assert(ptr_) failed and the program
\* was aborted; "crash": the program was killed by the null dereference.
Returned(v) == [out |-> "value", ret |-> v]
AssertFailed == [out |-> "assert", ret |-> NULL]
\* *ptr_ with ptr_ == nullptr is undefined behaviour: the program is killed, or
\* the call returns a reference from which anything is read.
NullDeref == {[out |-> "crash", ret |-> NULL]} \cup {Returned(v) : v \in Values}

\* assert(ptr_); return *ptr_;  (operator*)  and  assert(ptr_); return ptr_;
\* followed by the caller's read through it (operator->): the set of outcomes.
AssertedRead(c) ==
  IF c.ptr = NULL THEN {AssertFailed}
  ELSE IF ~obj[c.ptr].live THEN NullDeref
  ELSE {Returned(obj[c.ptr].value)}

\* return *ptr_;  (value()): the set of outcomes.
UncheckedRead(c) ==
  IF c.ptr = NULL \/ ~obj[c.ptr].live THEN NullDeref
  ELSE {Returned(obj[c.ptr].value)}

\* An accessor call on wrapper w ending in outcome o; a const member function,
\* it writes nothing.
Read(name, w, o) ==
  /\ Running
  /\ wr[w].alive
  /\ last' = [Op(name, w, NoWrapper, Heap0, FALSE, NoWrite)
                EXCEPT !.out = o.out, !.ret = o.ret]
  /\ UNCHANGED <<wr, cb, obj, bad, fam, pc>>

\* const T& operator*() const
OperatorStar(w) == \E o \in AssertedRead(wr[w]) : Read("operator*", w, o)

\* const T* operator->() const
OperatorArrow(w) == \E o \in AssertedRead(wr[w]) : Read("operator->", w, o)

\* const T& value() const
ValueAccessor(w) == \E o \in UncheckedRead(wr[w]) : Read("value", w, o)

Next ==
  \/ \E w \in Wrappers : Destroy(w)
  \/ \E w \in Wrappers : DefaultConstruct(w)
  \/ \E w \in Wrappers, v \in Values \cup {NULL}, cp \in Copiers : PointerConstruct(w, v, cp)
  \/ \E w \in Wrappers, v \in Values : ValueConstruct(w, v)
  \/ \E w \in Wrappers, v \in Values : MakeCopyOnWrite(w, v)
  \/ \E d, s \in Wrappers : CopyConstruct(d, s)
  \/ \E d, s \in Wrappers : ConvCopyConstruct(d, s)
  \/ \E d, s \in Wrappers : MoveConstruct(d, s)
  \/ \E d, s \in Wrappers : ConvMoveConstruct(d, s)
  \/ \E d, s \in Wrappers : CopyAssign(d, s)
  \/ \E d, s \in Wrappers : MoveAssign(d, s)
  \/ \E d, s \in Wrappers : ConvCopyAssign(d, s)
  \/ \E d, s \in Wrappers : ConvMoveAssign(d, s)
  \/ \E d \in Wrappers, v \in Values : ValueAssign(d, v)
  \/ \E a, b \in Wrappers : Swap(a, b)
  \/ \E c \in Wrappers, v \in Values \cup {NoWrite} : Mutate(c, v)
  \/ \E w \in Wrappers : OperatorStar(w)
  \/ \E w \in Wrappers : OperatorArrow(w)
  \/ \E w \in Wrappers : ValueAccessor(w)

Spec == Init /\ [][Next]_vars

\* ------------------------------------------------- a three-level hierarchy
\* A second client program: copy_on_write<U> u1, copy_on_write<T> t1 and
\* copy_on_write<S> s1, s2, where U derives from T and T from S (type levels 0,
\* 1, 2), so that a holder can be converted twice and a twice-converted holder
\* can be shared and cloned.  Its constructor calls may pass a pointer whose
\* static type is any type convertible to the wrapper's.  It declares its four
\* wrappers one after the other and none goes out of scope.
ChainWrappers == {"u1", "t1", "s1", "s2"}
Types == 0..2
MaxChainDelegs == 6
ChainDelegs == (MaxObjs + 1)..(MaxObjs + MaxChainDelegs)

InitChain ==
  /\ wr = [w \in ChainWrappers |-> DeadWrapper]
  /\ cb = [c \in Objs \cup ChainDelegs |-> FreeCb]
  /\ obj = [o \in Objs |-> DeadObj]
  /\ bad = FALSE
  /\ fam = {}
  /\ last = [op |-> "init", dst |-> NoWrapper, src |-> NoWrapper, threw |-> FALSE,
             copies |-> 0, deletes |-> 0, wrote |-> NoWrite,
             out |-> "ok", ret |-> NULL, arg |-> NULL]
  /\ pc = <<>>

\* copy_on_write<T>(U* p, C copier) with p of static type u pointing to an
\* object of dynamic type t and value v: enabled for is_convertible<U*, T*>;
\* assert(typeid(*u) == typeid(U)) aborts the program when t is not u.
PointerConstructOf(w, u, t, v, cp) ==
  /\ Running
  /\ ~wr[w].alive
  /\ t <= u /\ u <= WType(w)
  /\ IF t # u
     THEN /\ last' = [Op("pointer_construct", w, NoWrapper, Heap0, FALSE, NoWrite)
                        EXCEPT !.out = "assert", !.arg = v]
          /\ UNCHANGED <<wr, cb, obj, bad, fam, pc>>
     ELSE LET r == PointerCtorResult(Heap0, u, v, cp)
          IN Commit([wr EXCEPT ![w] = [alive |-> TRUE, ptr |-> r.ptr, cb |-> r.cb]],
                    r.h, FamNew(fam, w, r.cb),
                    [Op("pointer_construct", w, NoWrapper, r.h, FALSE, NoWrite)
                       EXCEPT !.arg = v])

NextChain ==
  \/ \E w \in ChainWrappers, u, t \in Types, v \in Values, cp \in Copiers :
       PointerConstructOf(w, u, t, v, cp)
  \/ \E d, s \in ChainWrappers : CopyConstruct(d, s)
  \/ \E d, s \in ChainWrappers : ConvCopyConstruct(d, s)
  \/ \E d, s \in ChainWrappers : ConvMoveConstruct(d, s)
  \/ \E d, s \in ChainWrappers : CopyAssign(d, s)
  \/ \E c \in ChainWrappers, v \in Values \cup {NoWrite} : Mutate(c, v)

SpecChain == InitChain /\ [][NextChain]_vars

\* ------------------------------------------------------- two threads
\* A third client program: the main thread built one wrapper around an object,
\* copied it, and handed one of the two to each of the threads A and B.  Each
\* thread works on its own wrappers only: the one it was given and one local
\* variable, all of one type.  What the threads share is the control block,
\* whose use count std::shared_ptr changes with atomic read-modify-write
\* operations; what follows a decrement is a step of its own.
Threads == {"A", "B"}
Own(t) == IF t = "A" THEN {"a1", "a2"} ELSE {"b1", "b2"}
ThreadWrappers == Own("A") \cup Own("B")
Idle == [at |-> "idle", c |-> NULL, old |-> 0]

InitThreads ==
  /\ wr = [w \in ThreadWrappers |->
             IF w \in {"a1", "b1"} THEN [alive |-> TRUE, ptr |-> 1, cb |-> 1]
             ELSE DeadWrapper]
  /\ cb = [c \in Objs |->
             IF c = 1 THEN [kind |-> "indirect", rc |-> 2, obj |-> 1, delegate |-> NULL,
                            copier |-> "copy", utype |-> WType("a1")]
             ELSE FreeCb]
  /\ obj = [o \in Objs |->
              IF o = 1 THEN [live |-> TRUE, value |-> 1, type |-> WType("a1")]
              ELSE DeadObj]
  /\ bad = FALSE
  /\ fam = {}
  /\ last = [op |-> "init", dst |-> NoWrapper, src |-> NoWrapper, threw |-> FALSE,
             copies |-> 0, deletes |-> 0, wrote |-> NoWrite,
             out |-> "ok", ret |-> NULL, arg |-> NULL]
  /\ pc = [t \in Threads |-> Idle]

\* The use count's atomic fetch_sub(1) in ~shared_ptr / reset / move assignment:
\* [h, old], old being the count it found.
FetchSub(h, c) ==
  IF h.cb[c].kind = "free" THEN [h |-> [h EXCEPT !.bad = TRUE], old |-> 0]
  ELSE [h |-> [h EXCEPT !.cb[c].rc = @ - 1], old |-> h.cb[c].rc]

\* A release that looks at the count again instead of at what fetch_sub found.
LastReferenceByReread(old, now) == now = 0

\* The releasing thread disposes of the block when its decrement took the last
\* reference: fetch_sub returned 1.
LastReference(old, now) == old = 1

\* Disposing of block c: the block is destroyed, and with it what it owns.
Dispose(h, c) ==
  IF h.cb[c].kind = "free" THEN [h EXCEPT !.bad = TRUE]
  ELSE SharedRelease([h EXCEPT !.cb[c].rc = 1], c)

\* Thread t gives up a reference to block c: [h, p], p its next pc.
Drop(h, c) ==
  IF c = NULL THEN [h |-> h, p |-> Idle]
  ELSE LET f == FetchSub(h, c)
       IN [h |-> f.h, p |-> [at |-> "released", c |-> c, old |-> f.old]]

ThreadStep(t, w2, h, p, l) ==
  /\ wr' = w2
  /\ cb' = h.cb
  /\ obj' = h.obj
  /\ bad' = h.bad
  /\ fam' = fam
  /\ last' = l
  /\ pc' = [pc EXCEPT ![t] = p]

\* copy_on_write d(s) in thread t: one atomic increment of the use count.
ThreadCopy(t, d, s) ==
  /\ pc[t].at = "idle" /\ d \in Own(t) /\ s \in Own(t)
  /\ ~wr[d].alive /\ wr[s].alive
  /\ LET r == CopyCtorResult(Heap0, wr[s])
     IN ThreadStep(t, [wr EXCEPT ![d] = [alive |-> TRUE, ptr |-> r.ptr, cb |-> r.cb]],
                   r.h, Idle, Op("copy_construct", d, s, r.h, FALSE, NoWrite))

\* w goes out of scope in thread t: ~shared_ptr decrements the use count.
ThreadDestroy(t, w) ==
  /\ pc[t].at = "idle" /\ w \in Own(t) /\ wr[w].alive
  /\ LET r == Drop(Heap0, wr[w].cb)
     IN ThreadStep(t, [wr EXCEPT ![w] = DeadWrapper], r.h, r.p,
                   Op("destroy", w, NoWrapper, r.h, FALSE, NoWrite))

\* w = copy_on_write() in thread t (assignment from an empty wrapper):
\* cb_.reset(); ptr_ = nullptr.
ThreadReset(t, w) ==
  /\ pc[t].at = "idle" /\ w \in Own(t) /\ wr[w].alive
  /\ LET r == Drop(Heap0, wr[w].cb)
     IN ThreadStep(t, [wr EXCEPT ![w] = EmptyWrapper], r.h, r.p,
                   Op("copy_assign", w, NoWrapper, r.h, FALSE, NoWrite))

\* d = std::move(s) in thread t: d takes s's reference and drops its own.
ThreadMoveAssign(t, d, s) ==
  /\ pc[t].at = "idle" /\ d \in Own(t) /\ s \in Own(t) /\ d # s
  /\ wr[d].alive /\ wr[s].alive
  /\ LET r == Drop(Heap0, wr[d].cb)
     IN ThreadStep(t, [wr EXCEPT ![d] = [alive |-> TRUE, ptr |-> wr[s].ptr, cb |-> wr[s].cb],
                                 ![s] = EmptyWrapper],
                   r.h, r.p, Op("move_assign", d, s, r.h, FALSE, NoWrite))

\* The step after the decrement: dispose of the block if it was the last
\* reference.
ThreadDispose(t) ==
  /\ pc[t].at = "released"
  /\ LET c == pc[t].c
         h == IF LastReference(pc[t].old, cb[c].rc) THEN Dispose(Heap0, c) ELSE Heap0
     IN ThreadStep(t, wr, h, Idle, Op("dispose", NoWrapper, t, h, FALSE, NoWrite))

NextThreads ==
  \/ \E t \in Threads, d, s \in ThreadWrappers : ThreadCopy(t, d, s)
  \/ \E t \in Threads, w \in ThreadWrappers : ThreadDestroy(t, w)
  \/ \E t \in Threads, w \in ThreadWrappers : ThreadReset(t, w)
  \/ \E t \in Threads, d, s \in ThreadWrappers : ThreadMoveAssign(t, d, s)
  \/ \E t \in Threads : ThreadDispose(t)

SpecThreads == InitThreads /\ [][NextThreads]_vars

\* ------------------------------------------- two threads calling mutate
\* A fourth client program: the main thread built a1, copied it to b1 and
\* handed a1 to thread A and b1 to thread B; each thread calls mutate on its
\* wrapper, writes through the pointer it got, and may do so again.  The steps
\* of a call are the statements of mutate and detach that touch what the
\* threads share: the use count read by cb_.unique(), the copy policy's read
\* of the held object (from its start to its end), the decrement that
\* cb_ = ... makes on the old block, and the disposal that may follow it.
MutateWrappers == {"a1", "b1"}
Mine(t) == IF t = "A" THEN "a1" ELSE "b1"
Other(t) == IF t = "A" THEN "B" ELSE "A"
StartCount == 2
StartBlock == 1
\* pc[t] = [at, c, old, done]: the statement thread t is at, the block it is
\* cloning / has made / has released, the count its decrement found, and
\* whether a call of mutate has returned to it.
At(stage, c, old, done) == [at |-> stage, c |-> c, old |-> old, done |-> done]

InitMutate ==
  /\ wr = [w \in MutateWrappers |-> [alive |-> TRUE, ptr |-> StartBlock, cb |-> StartBlock]]
  /\ cb = [c \in Objs |->
             IF c = StartBlock
             THEN [kind |-> "indirect", rc |-> StartCount, obj |-> StartBlock,
                   delegate |-> NULL, copier |-> "copy", utype |-> WType("a1")]
             ELSE FreeCb]
  /\ obj = [o \in Objs |->
              IF o = StartBlock THEN [live |-> TRUE, value |-> 1, type |-> WType("a1")]
              ELSE DeadObj]
  /\ bad = FALSE
  /\ fam = {}
  /\ last = [op |-> "init", dst |-> NoWrapper, src |-> NoWrapper, threw |-> FALSE,
             copies |-> 0, deletes |-> 0, wrote |-> NoWrite,
             out |-> "ok", ret |-> NULL, arg |-> NULL]
  /\ pc = [t \in Threads |-> At("idle", NULL, 0, FALSE)]

\* What cb_.unique() may find in the use count of block c: use_count() is a
\* relaxed load, which may return a count that another thread's decrement has
\* already replaced.  Only the block the threads started with was ever counted
\* by both.
UseCountRead(c) ==
  {cb[c].rc} \cup {n \in {StartCount} : c = StartBlock /\ cb[c].rc < n /\ cb[c].rc > 0}

\* The object thread t's copy policy is reading, if it is reading one.
Reading(t) ==
  IF pc[t].at = "cloning" /\ cb[pc[t].c].kind # "free" THEN cb[pc[t].c].obj ELSE NULL

\* if (c.ptr_ && !c.cb_.unique()): the test, on the count n that was read.
\* When it fails mutate returns c.ptr_ at once.
MutateCheck(t, n) ==
  /\ pc[t].at = "idle"
  /\ LET w == Mine(t)
         c == wr[w].cb
     IN /\ n \in UseCountRead(c)
        /\ FreeObjs(Heap0) # {}
        /\ IF MustDetach([Heap0 EXCEPT !.cb[c].rc = n], wr[w])
           THEN ThreadStep(t, wr, Heap0, At("detach", c, 0, pc[t].done),
                           Op("mutate_check", w, NoWrapper, Heap0, FALSE, NoWrite))
           ELSE ThreadStep(t, wr, Heap0, At("returned", NULL, 0, TRUE),
                           Op("mutate", w, NoWrapper, Heap0, FALSE, NoWrite))

\* cb_->clone() calls c_(*p_): the copy policy starts to read the held object.
MutateCloneBegin(t) ==
  /\ pc[t].at = "detach"
  /\ LET h == IF cb[pc[t].c].kind = "free" THEN [Heap0 EXCEPT !.bad = TRUE] ELSE Heap0
     IN ThreadStep(t, wr, h, At("cloning", pc[t].c, 0, pc[t].done),
                   Op("clone_begin", Mine(t), NoWrapper, h, FALSE, NoWrite))

\* The copy policy returns and clone() wraps the copy in a fresh block, held
\* by the temporary that cb_->clone() returns.
MutateCloneEnd(t) ==
  /\ pc[t].at = "cloning"
  /\ LET r == Clone(Heap0, pc[t].c)
     IN ThreadStep(t, wr, r.h, At("cloned", r.c, 0, pc[t].done),
                   Op("clone_end", Mine(t), NoWrapper, r.h, FALSE, NoWrite))

\* cb_ = <the clone>: cb_ refers to the fresh block and the use count of the old
\* one is decremented.
MutateReplace(t) ==
  /\ pc[t].at = "cloned"
  /\ LET w == Mine(t)
         r == Drop(Heap0, wr[w].cb)
     IN ThreadStep(t, [wr EXCEPT ![w].cb = pc[t].c], r.h,
                   At("released", r.p.c, r.p.old, pc[t].done),
                   Op("replace", w, NoWrapper, r.h, FALSE, NoWrite))

\* The old block is disposed of if the decrement took its last reference.
MutateDispose(t) ==
  /\ pc[t].at = "released"
  /\ LET c == pc[t].c
         h == IF LastReference(pc[t].old, cb[c].rc) THEN Dispose(Heap0, c) ELSE Heap0
     IN ThreadStep(t, wr, h, At("disposed", NULL, 0, pc[t].done),
                   Op("dispose", Mine(t), NoWrapper, h, FALSE, NoWrite))

\* ptr_ = cb_->ptr(); return c.ptr_;
MutateReturn(t) ==
  /\ pc[t].at = "disposed"
  /\ LET w == Mine(t)
     IN ThreadStep(t, [wr EXCEPT ![w].ptr = CbPtr(cb, wr[w].cb)], Heap0,
                   At("returned", NULL, 0, TRUE),
                   Op("mutate", w, NoWrapper, Heap0, FALSE, NoWrite))

\* The caller's write of v through the pointer mutate returned (v = NoWrite: it
\* drops the pointer unused).  A write to an object another thread's copy
\* policy is reading is a data race.
MutateWrite(t, v) ==
  /\ pc[t].at = "returned"
  /\ LET w == Mine(t)
         p == wr[w].ptr
         h0 == WriteThrough(Heap0, p, v)
         h == IF v # NoWrite /\ Reading(Other(t)) = p THEN [h0 EXCEPT !.bad = TRUE] ELSE h0
     IN ThreadStep(t, wr, h, At("idle", NULL, 0, TRUE),
                   Op("write", w, NoWrapper, h, FALSE, v))

NextMutate ==
  \/ \E t \in Threads, n \in 1..StartCount : MutateCheck(t, n)
  \/ \E t \in Threads : MutateCloneBegin(t)
  \/ \E t \in Threads : MutateCloneEnd(t)
  \/ \E t \in Threads : MutateReplace(t)
  \/ \E t \in Threads : MutateDispose(t)
  \/ \E t \in Threads : MutateReturn(t)
  \/ \E t \in Threads, v \in Values \cup {NoWrite} : MutateWrite(t, v)

SpecMutate == InitMutate /\ [][NextMutate]_vars

\* ------------------------------------------------- the variant header
\* copy_on_write<T> as src/unnamed/part_001 defines it: no converting
\* operations; destructor, constructors and swap as above; a copy assignment
\* that shares the holder, a move assignment without a self test, and a mutate
\* that returns ptr_ as it is.  The client has two wrappers of one type.
VariantWrappers == {"u1", "u2"}

InitVariant ==
  /\ wr = [w \in VariantWrappers |-> DeadWrapper]
  /\ cb = [c \in Objs |-> FreeCb]
  /\ obj = [o \in Objs |-> DeadObj]
  /\ bad = FALSE
  /\ fam = {}
  /\ last = [op |-> "init", dst |-> NoWrapper, src |-> NoWrapper, threw |-> FALSE,
             copies |-> 0, deletes |-> 0, wrote |-> NoWrite,
             out |-> "ok", ret |-> NULL, arg |-> NULL]
  /\ pc = <<>>

\* operator=(const copy_on_write& c): cb_ = c.cb_; ptr_ = c.ptr_.  [h, dst]
VariantCopyAssignResult(h, d, s) ==
  [h |-> SharedRelease(SharedCopy(h, s.cb), d.cb),
   dst |-> [alive |-> TRUE, ptr |-> s.ptr, cb |-> s.cb]]

VariantCopyAssign(dst, src) ==
  /\ wr[dst].alive /\ wr[src].alive
  /\ LET r == VariantCopyAssignResult(Heap0, wr[dst], wr[src])
     IN Commit([wr EXCEPT ![dst] = r.dst], r.h,
               IF dst = src THEN fam ELSE FamJoin(fam, dst, src, r.dst.cb),
               Op("copy_assign", dst, src, r.h, FALSE, NoWrite))

\* operator=(copy_on_write&& c): cb_ = std::move(c.cb_); ptr_ = std::move(c.ptr_);
\* c.ptr_ = nullptr.  On c = std::move(c) the shared_ptr keeps its block and
\* ptr_ becomes null.
VariantMoveAssign(dst, src) ==
  /\ wr[dst].alive /\ wr[src].alive
  /\ IF dst = src
     THEN Commit([wr EXCEPT ![dst].ptr = NULL], Heap0, fam,
                 Op("move_assign", dst, src, Heap0, FALSE, NoWrite))
     ELSE LET r == MoveAssignResult(Heap0, wr[dst], wr[src])
          IN Commit([wr EXCEPT ![dst] = r.dst, ![src] = r.src], r.h,
                    FamMove(fam, dst, src),
                    Op("move_assign", dst, src, r.h, FALSE, NoWrite))

\* mutate(c): return c.ptr_.  [h, w, threw]; w.ptr is the pointer returned.
VariantMutateResult(h, c) == [h |-> h, w |-> c, threw |-> FALSE]

\* mutate(c), followed at once (v # NoWrite) by the caller's write through the
\* pointer it returned.
VariantMutate(c, v) ==
  /\ wr[c].alive
  /\ LET r == VariantMutateResult(Heap0, wr[c])
         h == WriteThrough(r.h, r.w.ptr, v)
     IN Commit([wr EXCEPT ![c] = r.w], h, fam,
               Op("mutate", c, NoWrapper, h, r.threw,
                  IF r.w.ptr = NULL THEN NoWrite ELSE v))

NextVariant ==
  \/ \E w \in VariantWrappers : Destroy(w)
  \/ \E w \in VariantWrappers : DefaultConstruct(w)
  \/ \E w \in VariantWrappers, v \in Values \cup {NULL}, cp \in Copiers :
       PointerConstruct(w, v, cp)
  \/ \E w \in VariantWrappers, v \in Values : ValueConstruct(w, v)
  \/ \E d, s \in VariantWrappers : CopyConstruct(d, s)
  \/ \E d, s \in VariantWrappers : MoveConstruct(d, s)
  \/ \E d, s \in VariantWrappers : VariantCopyAssign(d, s)
  \/ \E d, s \in VariantWrappers : VariantMoveAssign(d, s)
  \/ \E a, b \in VariantWrappers : Swap(a, b)
  \/ \E c \in VariantWrappers, v \in Values \cup {NoWrite} : VariantMutate(c, v)

SpecVariant == InitVariant /\ [][NextVariant]_vars


\* ------------------------------------------------------------ observers
\* An operator bool that tests cb_ instead of ptr_.
NonEmptyByHolder(w) == wr[w].cb # NULL

\* operator bool
NonEmpty(w) == wr[w].ptr # NULL

\* value(), operator* and operator-> on a non-empty wrapper: *ptr_.
Value(w) == obj[wr[w].ptr].value

\* The held objects alive (the tests' object_count).
LiveCount == Cardinality({o \in Objs : obj[o].live})

\* The blocks a reference to block c keeps alive: c and its delegates.
RECURSIVE Chain(_, _)
Chain(cbs, c) ==
  IF c = NULL \/ cbs[c].kind = "free" THEN {}
  ELSE IF cbs[c].kind = "delegating" THEN {c} \cup Chain(cbs, cbs[c].delegate)
  ELSE {c}

\* Wrapper w refers to block c, directly or through delegating blocks.
RefersTo(w, c) == wr[w].alive /\ c \in Chain(cb, wr[w].cb)

\* Some wrapper other than w refers to w's own holder.
HolderShared(w) ==
  wr[w].cb # NULL /\ \E x \in Wrappers \ {w} : RefersTo(x, wr[w].cb)

\* No wrapper other than w refers to any block of w's chain.
OnlyOwner(w) ==
  \A x \in Wrappers \ {w} : \A c \in Chain(cb, wr[w].cb) : ~RefersTo(x, c)

\* The copy policy a clone of block c will call.
RECURSIVE CopierOf(_, _)
CopierOf(cbs, c) ==
  IF c = NULL THEN "none"
  ELSE IF cbs[c].kind = "delegating" THEN CopierOf(cbs, cbs[c].delegate)
  ELSE cbs[c].copier


\* ================================================================ claims

\* The step is operation name, and last' tells how it went.
Did(name) == last'.op = name

\* C1: independence after write (same type).  For distinct non-empty wrappers
\* a and b of one type and one family (b's holder came from a's by same-type
\* copies, moves and swaps), a write through the pointer mutate(a) just returned
\* is observed through a, and b still refers to the object it referred to, with
\* the value it had.
C1_IndependenceAfterWrite ==
  [][\A a \in Wrappers :
       (Did("mutate") /\ last'.dst = a /\ last'.wrote # NoWrite) =>
         /\ Value(a)' = last'.wrote
         /\ \A b \in Wrappers \ {a} :
              (SameType(a, b) /\ SameFam(a, b) /\ NonEmpty(b)) =>
                /\ wr'[b] = wr[b]
                /\ Value(b)' = Value(b)
                /\ obj'[wr[b].ptr].live]_vars

\* C1's case: mutate(a) detached a from a holder shared inside its family, the
\* caller wrote, and a family member b now observes another value than a.
C1_Witness ==
  /\ last.op = "mutate" /\ last.wrote # NoWrite /\ last.copies = 1
  /\ \E b \in Wrappers \ {last.dst} :
       /\ SameType(last.dst, b) /\ SameFam(last.dst, b) /\ NonEmpty(b)
       /\ Value(b) # Value(last.dst)

\* C2: right after copy-constructing d from a non-empty s of the same type, two
\* held objects exist: d's access pointer differs from s's, one more object is
\* alive than before, and both report the same value.
C2_CopyConstructIndependent ==
  [][\A d, s \in Wrappers :
       (Did("copy_construct") /\ last'.dst = d /\ last'.src = s /\ NonEmpty(s)) =>
         /\ wr'[d].ptr # wr'[s].ptr
         /\ LiveCount' = LiveCount + 1
         /\ Value(d)' = Value(s)']_vars

\* C3: strong exception safety of same-type copy assignment.  When the copy
\* policy raises during dst = src, every wrapper (src and dst among them) has
\* the access pointer and holder it had, every held object the value it had,
\* every block the use count it had, and as many objects are alive as before.
C3_CopyAssignStrongSafety ==
  [][\A d, s \in Wrappers :
       (Did("copy_assign") /\ last'.dst = d /\ last'.src = s /\ last'.threw) =>
         /\ wr'[s] = wr[s] /\ wr'[d] = wr[d]
         /\ wr' = wr /\ cb' = cb /\ obj' = obj
         /\ LiveCount' = LiveCount
         /\ last'.deletes = 0]_vars

\* C3's case: a copy assignment onto a non-empty dst with a holder of its own
\* was left by the source's copy policy raising.
C3_Witness ==
  /\ last.op = "copy_assign" /\ last.threw /\ last.copies = 1
  /\ NonEmpty(last.dst) /\ NonEmpty(last.src)
  /\ wr[last.dst].cb # wr[last.src].cb
  /\ CopierOf(cb, wr[last.src].cb) = "throw"

\* C4: exactly-once release.  No delete policy ever ran on an object that was
\* not alive and no destroyed block was ever used; a held object is alive
\* exactly while some wrapper refers, directly or through delegating blocks, to
\* the block that owns it, and one block owns it; every access pointer refers
\* to a live object; and with every wrapper destroyed no held object is alive.
C4_ExactlyOnceRelease ==
  /\ ~bad
  /\ \A o \in Objs :
       obj[o].live <=>
         \E w \in Wrappers, c \in Cbs :
           RefersTo(w, c) /\ cb[c].kind \in {"indirect", "direct"} /\ cb[c].obj = o
  /\ \A c, d \in Cbs :
       (c # d /\ cb[c].kind \in {"indirect", "direct"}
              /\ cb[d].kind \in {"indirect", "direct"}) => cb[c].obj # cb[d].obj
  /\ \A w \in Wrappers : (wr[w].alive /\ NonEmpty(w)) => obj[wr[w].ptr].live
  /\ (\A w \in Wrappers : ~wr[w].alive) => LiveCount = 0

\* C4's case: the last wrapper was destroyed, and its destruction released,
\* through a delegating block, the object it was the last to refer to.
C4_Witness ==
  /\ last.op = "destroy" /\ last.deletes = 1 /\ WType(last.dst) = 1
  /\ \A w \in Wrappers : ~wr[w].alive
  /\ LiveCount = 0

\* C5: empty-state atomicity.  Every wrapper's access pointer is null exactly
\* when its holder reference is null.
C5_EmptyStateAtomic ==
  \A w \in Wrappers : wr[w].alive => (wr[w].ptr = NULL <=> wr[w].cb = NULL)

\* C6: the mutation gate.  mutate(c) on a non-empty c whose holder another
\* wrapper refers to calls the copy policy exactly once and, when that returns,
\* gives c a fresh holder, alone in c's hands, around a fresh object equal to
\* the old one, returns the fresh object's address and leaves every other
\* wrapper as it was (when the policy raises, c too); on a holder that c alone
\* refers to it calls no copy policy, cannot fail, and leaves c as it was.
C6_MutationGate ==
  [][\A c \in Wrappers :
       (Did("mutate") /\ last'.dst = c /\ NonEmpty(c)) =>
         IF HolderShared(c)
         THEN /\ last'.copies = 1
              /\ \A w \in Wrappers \ {c} : wr'[w] = wr[w]
              /\ last'.threw => wr'[c] = wr[c]
              /\ ~last'.threw =>
                   /\ wr'[c].cb # NULL /\ cb[wr'[c].cb].kind = "free"
                   /\ cb'[wr'[c].cb].rc = 1
                   /\ wr'[c].ptr # NULL /\ ~obj[wr'[c].ptr].live
                   /\ wr'[c].ptr = CbPtr(cb', wr'[c].cb)
                   /\ obj'[wr[c].ptr].live
                   /\ last'.wrote = NoWrite => Value(c)' = Value(c)
         ELSE /\ last'.copies = 0 /\ ~last'.threw
              /\ wr' = wr]_vars

\* C6's case: a mutate that found the holder shared, cloned it and returned.
C6_Witness ==
  /\ last.op = "mutate" /\ last.copies = 1 /\ ~last.threw
  /\ NonEmpty(last.dst) /\ ~HolderShared(last.dst)
  /\ \E w \in Wrappers \ {last.dst} : wr[w].alive /\ NonEmpty(w)

\* C7: independence across conversion.  When b was just obtained from a
\* non-empty a of a convertible other type by converting copy construction or
\* converting copy assignment, a write through mutate(b) is not observed through
\* a, nor one through mutate(a) through b; when b was just obtained by a
\* converting move from a wrapper whose holder d still shares, the same holds
\* of b and d.
C7_IndependenceAcrossConversion ==
  [][\A x, y \in Wrappers :
       (/\ Did("mutate") /\ last'.wrote # NoWrite /\ last'.dst = x
        /\ NonEmpty(x) /\ NonEmpty(y)
        /\ \/ /\ last.op \in {"conv_copy_construct", "conv_copy_assign"}
              /\ {x, y} = {last.dst, last.src}
           \/ /\ last.op \in {"conv_move_construct", "conv_move_assign"}
              /\ \E b, d \in Wrappers :
                   /\ {x, y} = {b, d} /\ b = last.dst /\ SameType(d, last.src)
                   /\ wr[d].cb # NULL /\ wr[d].cb = cb[wr[b].cb].delegate)
       => Value(y)' = Value(y)]_vars

\* C8: policy invocation counts.  Copy-constructing d from a wrapper s built
\* from a raw pointer calls s's copy policy exactly once, and destroying that
\* copy next, while s lives, calls the delete policy exactly once.
C8_PolicyInvocationCounts ==
  [][/\ \A d, s \in Wrappers :
          (/\ Did("copy_construct") /\ last'.dst = d /\ last'.src = s
           /\ NonEmpty(s) /\ cb[wr[s].cb].kind = "indirect")
          => last'.copies = 1
     /\ \A d \in Wrappers :
          (/\ last.op = "copy_construct" /\ last.dst = d /\ NonEmpty(d)
           /\ cb[wr[d].cb].kind = "indirect" /\ wr[last.src].alive
           /\ Did("destroy") /\ last'.dst = d)
          => last'.deletes = 1]_vars

\* C9: failure of copy construction.  Copy-constructing d from a non-empty s
\* whose copy policy always raises fails: d does not come into existence, s
\* keeps its access pointer and value, and as many objects are alive as before.
C9_CopyConstructFails ==
  [][\A d, s \in Wrappers :
       (/\ Did("copy_construct") /\ last'.dst = d /\ last'.src = s
        /\ NonEmpty(s) /\ CopierOf(cb, wr[s].cb) = "throw")
       => /\ last'.threw
          /\ ~wr'[d].alive
          /\ wr'[s] = wr[s] /\ Value(s)' = Value(s)
          /\ LiveCount' = LiveCount]_vars

\* C10: move semantics (same type).  After move-constructing or move-assigning
\* d from a distinct s, s is empty (null access pointer, null holder) and d has
\* the access pointer and holder s had; no copy policy was called; move
\* construction leaves every held object as it was, and move assignment has
\* released the object d held exactly when no other wrapper referred to its
\* holder, and no other object.
C10_MoveSemantics ==
  [][\A d, s \in Wrappers :
       (/\ Did("move_construct") \/ Did("move_assign")
        /\ last'.dst = d /\ last'.src = s /\ d # s)
       => /\ wr'[s] = EmptyWrapper
          /\ wr'[d].ptr = wr[s].ptr /\ wr'[d].cb = wr[s].cb
          /\ last'.copies = 0 /\ ~last'.threw
          /\ \A w \in Wrappers \ {d, s} : wr'[w] = wr[w]
          /\ Did("move_construct") => (obj' = obj /\ LiveCount' = LiveCount)
          /\ Did("move_assign") =>
               /\ (NonEmpty(d) /\ OnlyOwner(d)) =>
                    (~obj'[wr[d].ptr].live /\ LiveCount' = LiveCount - 1)
               /\ ~(NonEmpty(d) /\ OnlyOwner(d)) => obj' = obj]_vars

\* C10's case: a move assignment from a non-empty s onto a d that was the only
\* owner of another object, which the assignment released.
C10_Witness ==
  /\ last.op = "move_assign" /\ last.dst # last.src
  /\ NonEmpty(last.dst) /\ wr[last.src] = EmptyWrapper
  /\ last.deletes = 1


\* C11: self-assignment is a no-op.  a = a and a = std::move(a) leave a's access
\* pointer and holder, every use count, every held object and value and so the
\* live-object count as they were, and call neither the copy policy nor the
\* delete policy.
C11_SelfAssignNoOp ==
  [][\A a \in Wrappers :
       (/\ Did("copy_assign") \/ Did("move_assign")
        /\ last'.dst = a /\ last'.src = a)
       => /\ wr'[a] = wr[a]
          /\ wr' = wr /\ cb' = cb /\ obj' = obj
          /\ LiveCount' = LiveCount
          /\ last'.copies = 0 /\ last'.deletes = 0 /\ ~last'.threw]_vars

\* C11's case: a self move-assignment of a non-empty wrapper that alone refers
\* to its holder, whose copy policy would throw if it were called.
C11_Witness ==
  /\ last.op = "move_assign" /\ last.dst = last.src
  /\ NonEmpty(last.dst) /\ OnlyOwner(last.dst)
  /\ CopierOf(cb, wr[last.dst].cb) = "throw"

\* C12: zero-copy conversion.  Converting copy or move construction of d from a
\* non-empty s of another type calls no copy policy and creates no held object;
\* d's holder is a fresh delegating block around the block s had, and d's access
\* pointer is the one s had; the copy form leaves s as it was, the move form
\* leaves s empty.
C12_ZeroCopyConversion ==
  [][\A d, s \in Wrappers :
       (/\ Did("conv_copy_construct") \/ Did("conv_move_construct")
        /\ last'.dst = d /\ last'.src = s /\ NonEmpty(s))
       => /\ last'.copies = 0 /\ last'.deletes = 0 /\ ~last'.threw
          /\ obj' = obj /\ LiveCount' = LiveCount
          /\ wr'[d].alive /\ wr'[d].cb # NULL
          /\ cb[wr'[d].cb].kind = "free"
          /\ cb'[wr'[d].cb].kind = "delegating"
          /\ cb'[wr'[d].cb].delegate = wr[s].cb
          /\ wr'[d].ptr = wr[s].ptr
          /\ wr'[d].ptr = CbPtr(cb', wr'[d].cb)
          /\ Did("conv_copy_construct") => wr'[s] = wr[s]
          /\ Did("conv_move_construct") => wr'[s] = EmptyWrapper]_vars

\* C12's case: a copy_on_write<T> was just copy-converted from a non-empty
\* copy_on_write<U> and both refer to the one held object.
C12_Witness ==
  /\ last.op = "conv_copy_construct"
  /\ NonEmpty(last.src) /\ NonEmpty(last.dst)
  /\ wr[last.dst].ptr = wr[last.src].ptr
  /\ cb[wr[last.dst].cb].delegate = wr[last.src].cb
  /\ LiveCount = 1

\* C13: mutate clones at most once per sharing episode.  When mutate(c) returns
\* on a non-empty c, c alone refers to its holder (use count 1); that lasts
\* through every operation that has c as neither destination nor source; and
\* while it lasts mutate(c) calls no copy policy, cannot fail and returns the
\* pointer c already had.
C13_MutateClonesOncePerEpisode ==
  [][\A c \in Wrappers :
       /\ (Did("mutate") /\ last'.dst = c /\ ~last'.threw /\ NonEmpty(c)') =>
            (~HolderShared(c)' /\ cb'[wr'[c].cb].rc = 1)
       /\ (NonEmpty(c) /\ ~HolderShared(c) /\ last'.dst # c /\ last'.src # c) =>
            (wr'[c] = wr[c] /\ ~HolderShared(c)')
       /\ (NonEmpty(c) /\ ~HolderShared(c) /\ Did("mutate") /\ last'.dst = c) =>
            /\ last'.copies = 0 /\ ~last'.threw
            /\ wr'[c] = wr[c] /\ ~HolderShared(c)']_vars

\* C13's case: a mutate(c) that called no copy policy on a c that an earlier
\* mutate had detached from a same-type wrapper b, which still holds the other
\* object.
C13_Witness ==
  /\ last.op = "mutate" /\ last.copies = 0 /\ ~last.threw
  /\ NonEmpty(last.dst) /\ ~HolderShared(last.dst)
  /\ \E b \in Wrappers \ {last.dst} :
       /\ SameFam(last.dst, b) /\ NonEmpty(b)
       /\ wr[b].ptr # wr[last.dst].ptr

\* C13 as stated: once mutate(c) has returned on a non-empty c, only a copy, a
\* conversion or an assignment from c can end c's sole ownership; here for the
\* first operation after the mutate: unless it is one of those (or destroys or
\* empties c), c stays the only one to refer to its holder, so that the next
\* mutate(c) calls no copy policy.
C13_AsStated ==
  [][\A c \in Wrappers :
       (/\ last.op = "mutate" /\ last.dst = c /\ ~last.threw /\ NonEmpty(c)
        /\ ~(last'.src = c /\ last'.op # "swap")
        /\ NonEmpty(c)')
       => ~HolderShared(c)']_vars

\* C14: access/holder agreement.  After every operation, every non-empty
\* wrapper has a holder, and its access pointer is what the holder's ptr()
\* returns, followed through the delegating blocks to the concrete block's
\* object.
C14_AccessHolderAgreement ==
  \A w \in Wrappers :
    (wr[w].alive /\ NonEmpty(w)) =>
      /\ wr[w].cb # NULL
      /\ PtrDefined(cb, wr[w].cb)
      /\ wr[w].ptr = CbPtr(cb, wr[w].cb)

\* C14's case: mutate just replaced a wrapper's holder by a clone, next to a
\* copy_on_write<T> that was converted from it and reads the old object through
\* a delegating block.
C14_Witness ==
  /\ last.op = "mutate" /\ last.copies = 1 /\ ~last.threw
  /\ NonEmpty(last.dst) /\ wr[last.dst].ptr = CbPtr(cb, wr[last.dst].cb)
  /\ \E t \in Wrappers \ {last.dst} :
       /\ NonEmpty(t) /\ cb[wr[t].cb].kind = "delegating"
       /\ wr[t].ptr = CbPtr(cb, wr[t].cb)
       /\ wr[t].ptr # wr[last.dst].ptr

\* C15: same-type copy assignment from a non-empty source.  dst = src with dst
\* distinct from src calls the copy policy exactly once and, when that returns,
\* leaves dst non-empty with a fresh object of src's value at another address
\* than src's, src as it was, and the object dst held released exactly when dst
\* was the only wrapper to refer to its holder: one object more is alive, or as
\* many as before.
C15_CopyAssignFromNonEmpty ==
  [][\A d, s \in Wrappers :
       (/\ Did("copy_assign") /\ last'.dst = d /\ last'.src = s /\ d # s
        /\ NonEmpty(s))
       => /\ last'.copies = 1
          /\ ~last'.threw =>
               /\ NonEmpty(d)'
               /\ Value(d)' = Value(s)'
               /\ wr'[d].ptr # wr'[s].ptr
               /\ wr'[s] = wr[s] /\ Value(s)' = Value(s)
               /\ ~obj[wr'[d].ptr].live /\ obj'[wr'[d].ptr].live
               /\ IF NonEmpty(d) /\ OnlyOwner(d)
                  THEN ~obj'[wr[d].ptr].live /\ LiveCount' = LiveCount
                  ELSE /\ LiveCount' = LiveCount + 1
                       /\ NonEmpty(d) => obj'[wr[d].ptr].live]_vars

\* C15's case: a copy assignment onto a dst that alone owned another object,
\* which the delete policy released after the clone was made.
C15_Witness ==
  /\ last.op = "copy_assign" /\ ~last.threw
  /\ last.copies = 1 /\ last.deletes = 1
  /\ NonEmpty(last.dst) /\ NonEmpty(last.src)
  /\ wr[last.dst].ptr # wr[last.src].ptr
  /\ Value(last.dst) = Value(last.src)
  /\ LiveCount = 2

\* C16: same-type copy assignment from an empty source.  dst = src with src
\* empty and distinct from dst leaves dst empty (null access pointer, null
\* holder) and src as it was, calls no copy policy and cannot fail; the object
\* dst held is released, and one object fewer is alive, exactly when dst was
\* the only wrapper to refer to its holder.
C16_CopyAssignFromEmpty ==
  [][\A d, s \in Wrappers :
       (/\ Did("copy_assign") /\ last'.dst = d /\ last'.src = s /\ d # s
        /\ ~NonEmpty(s))
       => /\ wr'[d] = EmptyWrapper
          /\ wr'[s] = wr[s]
          /\ \A w \in Wrappers \ {d} : wr'[w] = wr[w]
          /\ last'.copies = 0 /\ ~last'.threw
          /\ IF NonEmpty(d) /\ OnlyOwner(d)
             THEN ~obj'[wr[d].ptr].live /\ LiveCount' = LiveCount - 1
             ELSE obj' = obj /\ LiveCount' = LiveCount]_vars

\* C16's case: an empty wrapper was copy-assigned to a dst that alone owned an
\* object, which the delete policy released.
C16_Witness ==
  /\ last.op = "copy_assign" /\ last.dst # last.src
  /\ wr[last.dst] = EmptyWrapper /\ wr[last.src] = EmptyWrapper
  /\ last.deletes = 1 /\ last.copies = 0

\* C17: dereferencing an empty wrapper fails fast.  Each of operator*,
\* operator-> and value() ends in a failed assertion when called on an empty
\* wrapper, and returns the held value when called on a non-empty one.
C17_DerefEmptyFailsFast ==
  [][\A w \in Wrappers :
       (last'.op \in {"operator*", "operator->", "value"} /\ last'.dst = w) =>
         IF NonEmpty(w)
         THEN last'.out = "value" /\ last'.ret = Value(w)
         ELSE last'.out = "assert"]_vars

\* C18: no slicing through conversion and cloning (three-level hierarchy).  A
\* wrapper never refers to an object whose dynamic type is not its own type or
\* one derived from it; a converting construction, first or repeated, hands the
\* new wrapper the very object the source had, untouched; and the clone that a
\* copy assignment or a detaching mutate makes has the dynamic type and the
\* value of the object it was cloned from, sits behind as many delegating
\* blocks, and carries the copy policy the original was constructed with.
C18_NoSlicing ==
  [][\A d \in ChainWrappers :
       /\ NonEmpty(d)' => obj'[wr'[d].ptr].type <= WType(d)
       /\ \A s \in ChainWrappers :
            (/\ Did("conv_copy_construct") \/ Did("conv_move_construct")
             /\ last'.dst = d /\ last'.src = s /\ NonEmpty(s))
            => /\ wr'[d].ptr = wr[s].ptr
               /\ obj'[wr'[d].ptr] = obj[wr[s].ptr]
       /\ \A s \in ChainWrappers \ {d} :
            (/\ Did("copy_assign") /\ last'.dst = d /\ last'.src = s
             /\ NonEmpty(s) /\ ~last'.threw)
            => /\ wr'[d].ptr # wr[s].ptr
               /\ obj'[wr'[d].ptr].type = obj[wr[s].ptr].type
               /\ obj'[wr'[d].ptr].value = obj[wr[s].ptr].value
               /\ CopierOf(cb', wr'[d].cb) = CopierOf(cb, wr[s].cb)
               /\ Cardinality(Chain(cb', wr'[d].cb)) = Cardinality(Chain(cb, wr[s].cb))
       /\ (/\ Did("mutate") /\ last'.dst = d /\ last'.copies = 1 /\ ~last'.threw)
          => /\ wr'[d].ptr # wr[d].ptr
             /\ obj'[wr'[d].ptr].type = obj[wr[d].ptr].type
             /\ obj'[wr'[d].ptr].value =
                  (IF last'.wrote = NoWrite THEN obj[wr[d].ptr].value ELSE last'.wrote)
             /\ CopierOf(cb', wr'[d].cb) = CopierOf(cb, wr[d].cb)
             /\ Cardinality(Chain(cb', wr'[d].cb)) = Cardinality(Chain(cb, wr[d].cb))]_vars

\* C18's case: a copy_on_write<S> that reads a U object through two delegating
\* blocks (it was converted twice) was copy-assigned to another copy_on_write<S>,
\* which now reads a second U object of the same value through two delegating
\* blocks of its own.
C18_Witness ==
  /\ last.op = "copy_assign" /\ ~last.threw /\ last.copies = 1
  /\ WType(last.dst) = 2 /\ WType(last.src) = 2 /\ last.dst # last.src
  /\ NonEmpty(last.dst) /\ NonEmpty(last.src)
  /\ wr[last.dst].ptr # wr[last.src].ptr
  /\ obj[wr[last.src].ptr].type = 0 /\ obj[wr[last.dst].ptr].type = 0
  /\ Value(last.dst) = Value(last.src)
  /\ Cardinality(Chain(cb, wr[last.src].cb)) = 3
  /\ Cardinality(Chain(cb, wr[last.dst].cb)) = 3
  /\ Chain(cb, wr[last.dst].cb) \cap Chain(cb, wr[last.src].cb) = {}

\* C19: concurrent reference counting.  With two threads that each copy,
\* destroy and re-assign wrappers of their own, all sharing one holder, in any
\* interleaving: the held object is never released twice and no destroyed block
\* is used; it is alive as long as a wrapper of either thread refers to it; the
\* use count is the number of wrappers referring to the block; and once every
\* wrapper has dropped its reference and the releases have run, it has been
\* released.
C19_ConcurrentRefCount ==
  /\ ~bad
  /\ \A w \in ThreadWrappers :
       (wr[w].alive /\ wr[w].cb # NULL) =>
         /\ cb[wr[w].cb].kind = "indirect"
         /\ wr[w].ptr = cb[wr[w].cb].obj
         /\ obj[wr[w].ptr].live
  /\ cb[1].kind # "free" =>
       cb[1].rc = Cardinality({w \in ThreadWrappers : wr[w].alive /\ wr[w].cb = 1})
  /\ (/\ \A t \in Threads : pc[t].at = "idle"
      /\ \A w \in ThreadWrappers : ~(wr[w].alive /\ wr[w].cb = 1))
     => (~obj[1].live /\ cb[1].kind = "free")
  /\ last.deletes <= 1

\* C19's case: both threads dropped their last reference before either ran the
\* step after its decrement; the thread whose decrement found 1 has now
\* released the object, once, and the other one is still to run its step.
C19_Witness ==
  /\ last.op = "dispose" /\ last.deletes = 1
  /\ ~obj[1].live /\ ~bad
  /\ \A w \in ThreadWrappers : ~(wr[w].alive /\ wr[w].cb # NULL)
  /\ \E t \in Threads : pc[t].at = "released" /\ pc[t].old = 2

\* C20: swap(a, b) on two wrappers of one type exchanges their (access pointer,
\* holder) pairs and leaves every other wrapper alone; it calls no copy policy
\* and no delete policy and cannot fail; every use count, every control block
\* and every held object is as before; swapping the two again gives back the
\* pairs they had, so a swap that follows a swap of the same two wrappers
\* undoes it; and swap(a, a) changes nothing.
C20_SwapExchanges ==
  [][\A a, b \in Wrappers :
       (Did("swap") /\ last'.dst = a /\ last'.src = b) =>
         /\ wr'[a] = wr[b] /\ wr'[b] = wr[a]
         /\ \A w \in Wrappers \ {a, b} : wr'[w] = wr[w]
         /\ last'.copies = 0 /\ last'.deletes = 0 /\ ~last'.threw
         /\ cb' = cb /\ obj' = obj /\ LiveCount' = LiveCount /\ bad' = bad
         /\ LET r == SwapResult(wr'[a], wr'[b])
            IN r.a = wr[a] /\ r.b = wr[b]
         /\ (last.op = "swap" /\ {last.dst, last.src} = {a, b}) =>
              /\ wr'[last.dst] = wr[last.src]
              /\ wr'[last.src] = wr[last.dst]
         /\ a = b => wr' = wr]_vars

\* C20's case: two distinct non-empty wrappers with different objects and
\* different holders, one of the holders shared with a third wrapper, were
\* swapped.
C20_Witness ==
  /\ last.op = "swap" /\ last.dst # last.src
  /\ NonEmpty(last.dst) /\ NonEmpty(last.src)
  /\ wr[last.dst].ptr # wr[last.src].ptr
  /\ wr[last.dst].cb # wr[last.src].cb
  /\ HolderShared(last.dst)

\* C21: empty propagation.  A default-constructed wrapper converts to false;
\* a wrapper copy-constructed or move-constructed from an empty wrapper, of the
\* same type or of a convertible one, converts to false too, and so does the
\* source afterwards; such a construction creates and releases no held object,
\* calls no copy policy and no delete policy, and cannot fail.
C21_EmptyPropagation ==
  [][\A d \in Wrappers :
       /\ (Did("default_construct") /\ last'.dst = d) =>
            /\ wr'[d].alive /\ ~NonEmpty(d)'
            /\ obj' = obj /\ last'.copies = 0 /\ last'.deletes = 0 /\ ~last'.threw
       /\ \A s \in Wrappers :
            (/\ last'.op \in {"copy_construct", "move_construct",
                              "conv_copy_construct", "conv_move_construct"}
             /\ last'.dst = d /\ last'.src = s /\ ~NonEmpty(s)) =>
              /\ wr'[d].alive /\ ~NonEmpty(d)' /\ ~NonEmpty(s)'
              /\ obj' = obj /\ LiveCount' = LiveCount
              /\ last'.copies = 0 /\ last'.deletes = 0 /\ ~last'.threw]_vars

\* C21's case: a wrapper of the base type was just copy-constructed by
\* conversion from an empty wrapper of the derived type and is empty, though
\* it has a (delegating) holder.
C21_Witness ==
  /\ last.op = "conv_copy_construct"
  /\ wr[last.src].alive /\ ~NonEmpty(last.src)
  /\ wr[last.dst].alive /\ ~NonEmpty(last.dst)
  /\ wr[last.dst].cb # NULL
  /\ LiveCount = 0

\* C22: raw-pointer construction.  Constructing d from a null pointer leaves d
\* empty, access pointer and holder both null, creates nothing and calls
\* neither policy, and destroying that d next calls neither.  Constructing d
\* from a non-null pointer p (to an object of the declared type) calls no copy
\* policy and no delete policy, makes no copy of the object, and leaves d
\* non-empty with p as its access pointer and a fresh indirect holder, in d's
\* hands alone, that owns p; nothing else on the heap changes.  Destroying
\* a wrapper that is the only one to refer to its indirect holder releases
\* the object through the delete policy, called once.
C22_RawPointerConstruction ==
  [][\A d \in Wrappers :
       /\ (Did("pointer_construct") /\ last'.dst = d /\ last'.arg = NULL) =>
            /\ wr'[d] = EmptyWrapper
            /\ cb' = cb /\ obj' = obj
            /\ last'.copies = 0 /\ last'.deletes = 0 /\ ~last'.threw
       /\ (Did("pointer_construct") /\ last'.dst = d /\ last'.arg # NULL) =>
            LET p == wr'[d].ptr
                c == wr'[d].cb
            IN /\ p # NULL /\ c # NULL
               /\ ~obj[p].live /\ obj'[p].live /\ obj'[p].value = last'.arg
               /\ \A o \in Objs \ {p} : obj'[o] = obj[o]
               /\ LiveCount' = LiveCount + 1
               /\ cb[c].kind = "free"
               /\ cb'[c].kind = "indirect" /\ cb'[c].obj = p /\ cb'[c].rc = 1
               /\ \A x \in Cbs \ {c} : cb'[x] = cb[x]
               /\ last'.copies = 0 /\ last'.deletes = 0 /\ ~last'.threw
       /\ (/\ last.op = "pointer_construct" /\ last.dst = d /\ last.arg = NULL
           /\ Did("destroy") /\ last'.dst = d) =>
            (last'.copies = 0 /\ last'.deletes = 0 /\ obj' = obj)
       /\ (/\ Did("destroy") /\ last'.dst = d /\ NonEmpty(d)
           /\ cb[wr[d].cb].kind = "indirect" /\ ~HolderShared(d)) =>
            /\ last'.deletes = 1 /\ last'.copies = 0
            /\ ~obj'[wr[d].ptr].live /\ ~bad'
            /\ LiveCount' = LiveCount - 1]_vars

\* C22's case: a wrapper was just constructed from a non-null pointer and a
\* supplied copy policy, next to another wrapper that holds an object.
C22_Witness ==
  /\ last.op = "pointer_construct" /\ last.arg # NULL
  /\ NonEmpty(last.dst)
  /\ cb[wr[last.dst].cb].copier = "throw"
  /\ LiveCount = 2

\* C23: the factory helper.  make_copy_on_write<T>(v) leaves the new wrapper
\* non-empty with a direct holder, in its hands alone, that stores the value v
\* inline; the wrapper's access pointer is what the holder's ptr() returns; one
\* held object was created (exactly one exists when none existed before) and
\* nothing else on the heap changed; no copy policy and no delete policy ran.
C23_FactoryHelper ==
  [][\A d \in Wrappers :
       (Did("make") /\ last'.dst = d) =>
         LET p == wr'[d].ptr
             c == wr'[d].cb
         IN /\ NonEmpty(d)' /\ c # NULL
            /\ cb[c].kind = "free"
            /\ cb'[c].kind = "direct" /\ cb'[c].rc = 1 /\ cb'[c].obj = p
            /\ c = p
            /\ p = CbPtr(cb', c) /\ PtrDefined(cb', c)
            /\ ~obj[p].live /\ obj'[p].live /\ Value(d)' = last'.arg
            /\ \A o \in Objs \ {p} : obj'[o] = obj[o]
            /\ \A x \in Cbs \ {c} : cb'[x] = cb[x]
            /\ LiveCount' = LiveCount + 1
            /\ LiveCount = 0 => LiveCount' = 1
            /\ last'.copies = 0 /\ last'.deletes = 0 /\ ~last'.threw]_vars

\* C23's case: the factory just made the only held object there is.
C23_Witness ==
  /\ last.op = "make" /\ NonEmpty(last.dst)
  /\ cb[wr[last.dst].cb].kind = "direct"
  /\ Value(last.dst) = last.arg
  /\ LiveCount = 1

\* C24: concurrent mutate on two copies.  Threads A and B call mutate, each on
\* its own wrapper, the two wrappers sharing one holder at the start.  In every
\* interleaving of the use-count test, the clone, the replacement of cb_ and
\* the release of the old block: no block or object is used after its release
\* and no write races with a read; a block is not released, and its object is
\* alive, while a thread is cloning it; a thread that holds the pointer mutate
\* returned holds it to an object the other thread is not reading for its
\* clone, in a holder that the thread's wrapper alone refers to; and once a
\* call has returned to each thread the two wrappers have distinct access
\* pointers and distinct holders, each with use count 1.
C24_ConcurrentMutate ==
  /\ ~bad
  /\ \A t \in Threads :
       LET w == Mine(t)
           x == Mine(Other(t))
       IN /\ pc[t].at \in {"detach", "cloning"} =>
               /\ cb[pc[t].c].kind # "free" /\ cb[pc[t].c].rc >= 1
               /\ obj[cb[pc[t].c].obj].live
          /\ pc[t].at = "returned" =>
               /\ wr[w].ptr # NULL /\ obj[wr[w].ptr].live
               /\ Reading(Other(t)) # wr[w].ptr
               /\ wr[w].ptr = CbPtr(cb, wr[w].cb)
               /\ cb[wr[w].cb].rc = 1
               /\ wr[x].cb # wr[w].cb
               /\ pc[Other(t)].at \in {"idle", "returned"} => wr[x].ptr # wr[w].ptr
  /\ (\A t \in Threads : pc[t].done /\ pc[t].at \in {"idle", "returned"}) =>
       /\ wr["a1"].ptr # wr["b1"].ptr
       /\ wr["a1"].cb # wr["b1"].cb
       /\ \A w \in MutateWrappers :
            /\ cb[wr[w].cb].rc = 1
            /\ obj[wr[w].ptr].live
            /\ wr[w].ptr = CbPtr(cb, wr[w].cb)

\* C24's case: both threads found the holder shared and both cloned it; the
\* thread whose decrement came second released the original object; both calls
\* have returned, each wrapper alone on a holder of its own.
C24_Witness ==
  /\ \A t \in Threads : pc[t].done /\ pc[t].at = "returned"
  /\ wr["a1"].ptr # StartBlock /\ wr["b1"].ptr # StartBlock
  /\ wr["a1"].ptr # wr["b1"].ptr
  /\ ~obj[StartBlock].live
  /\ ~bad

\* C25: the variant header.  Right after b was obtained from a non-empty a, a
\* distinct wrapper, by copy construction or copy assignment, b and a report
\* equal values; and a write through the pointer mutate(a) returns, made next,
\* does not change the value b reports.
C25_VariantIndependence ==
  [][\A a, b \in VariantWrappers :
       /\ (/\ last'.op \in {"copy_construct", "copy_assign"}
           /\ last'.dst = b /\ last'.src = a /\ a # b /\ NonEmpty(a)) =>
            (NonEmpty(b)' /\ Value(b)' = Value(a)')
       /\ (/\ last.op \in {"copy_construct", "copy_assign"}
           /\ last.dst = b /\ last.src = a /\ a # b /\ NonEmpty(a)
           /\ Did("mutate") /\ last'.dst = a /\ last'.wrote # NoWrite) =>
            Value(b)' = Value(b)]_vars

====
